---- MODULE Spec2Model ----
(***************************************************************************)
(* Texture sampling and mip-map generation of src/scene/texture.cpp.       *)
(*                                                                         *)
(* Numbers.  A colour is one channel of a Spectrum (every operation of the *)
(* code is component-wise), held as an integer number of colour units.     *)
(* Texture coordinates are integers in units of 1/UVDen, levels of detail  *)
(* integers in units of 1/LodDen, and a sampled value is held in units of  *)
(* 1/(4*LodDen) of a colour, so that every product and quotient the code   *)
(* forms on the inputs below is exact: the model is the code in exact      *)
(* arithmetic, without the rounding of float.                              *)
(***************************************************************************)
EXTENDS Integers, Sequences, FiniteSets, TLC

VARIABLES image, sampler, levels, aborted, op, call

vars == <<image, sampler, levels, aborted, op, call>>

\* Largest width and height of a base image handed to generate_mipmap alone.
MaxGenDim == 8
\* Largest width and height of the image of an evaluated Texture.
MaxDim == 4
\* Largest width and height of the image of a Texture that is mutated.
MaxTexDim == 2
\* Pixel patterns 0..MaxSeed of the base images.
MaxSeed == 1
\* lod runs over multiples of 1/LodDen.
LodDen == 2

\* int (iw, ih, sample_pos) is 32 bits wide.
IntMax == 2147483647
IntMin == (-IntMax) - 1

Max(a, b) == IF a < b THEN b ELSE a
Min(a, b) == IF b < a THEN b ELSE a
\* std::clamp(v, lo, hi): (v < lo) ? lo : (hi < v) ? hi : v
Clamp_NoUpper(v, lo, hi) == IF v < lo THEN lo ELSE v
Clamp(v, lo, hi) == IF v < lo THEN lo ELSE IF hi < v THEN hi ELSE v

RECURSIVE Pow(_, _)
Pow(b, e) == IF e <= 0 THEN 1 ELSE b * Pow(b, e - 1)

RECURSIVE Log2Floor(_)
\* floor(log2(n)) for n >= 1
Log2Floor(n) == IF n <= 1 THEN 0 ELSE 1 + Log2Floor(n \div 2)

RECURSIVE Lcm1To(_)
Gcd(a, b) == CHOOSE d \in 1..a : a % d = 0 /\ b % d = 0 /\
                 \A e \in 1..a : (a % e = 0 /\ b % e = 0) => e <= d
Lcm1To(n) == IF n <= 1 THEN 1 ELSE (Lcm1To(n - 1) * n) \div Gcd(Lcm1To(n - 1), n)

LargestDim == Max(MaxGenDim, Max(MaxDim, MaxTexDim))
\* One colour unit: every average of the mip chain (/4, /6, /9) is exact.
ColorUnit == Pow(36, Log2Floor(LargestDim))
\* uv unit: every k/(4w), w <= MaxDim, is a whole number of them.
UVDen == 4 * Lcm1To(Max(MaxDim, MaxTexDim))

-----------------------------------------------------------------------------
(* HDR_Image: w, h and the pixels (x, y), 0 <= x < w, 0 <= y < h.           *)

Coords(w, h) == (0 .. (w - 1)) \X (0 .. (h - 1))

Pattern(seed, x, y) == (1 + seed * (x + 3 * y)) * ColorUnit

MkImage(w, h, seed) ==
    [w |-> w, h |-> h, px |-> [p \in Coords(w, h) |-> Pattern(seed, p[1], p[2])]]

ImagesUpTo(d) == {MkImage(w, h, s) : w \in 0..d, h \in 0..d, s \in 0..MaxSeed}

\* What a read outside the pixel buffer may return.
Garbage == {0, 5 * ColorUnit}

\* The index at(x, y) is given is uint32_t: a negative int lands far outside.
InBounds(img, x, y) == 0 <= x /\ x < img.w /\ 0 <= y /\ y < img.h

\* image.at(x, y); g is what the read returns when it is out of range
At(img, x, y, g) == IF InBounds(img, x, y) THEN img.px[<<x, y>>] ELSE g

-----------------------------------------------------------------------------
(* generate_mipmap: the allocation phase.                                  *)

\* static_cast<int32_t>(std::log2(std::max(base.w, base.h))); log2(0) is
\* -inf, whose conversion is undefined: ub is the int it produces.
NumLevels_MinDim(w, h, ub) == IF Min(w, h) = 0 THEN ub ELSE Log2Floor(Min(w, h))
NumLevels(w, h, ub) == IF Max(w, h) = 0 THEN ub ELSE Log2Floor(Max(w, h))

\* What the conversion of -inf to int32_t may produce: INT_MIN on the usual
\* targets (x86 cvttsd2si's indefinite value, the saturating conversions),
\* or the other end of the range.
UBLevels == {IntMin, IntMax}

RECURSIVE AllocLoop(_, _, _, _, _)
\* the for loop of the allocation phase, from iteration i on; it stops at
\* the first failing assert
AllocLoop(i, n, width, height, dims) ==
    IF i >= n
    THEN [dims |-> dims, width |-> width, height |-> height, loopOk |-> TRUE]
    ELSE IF width = 1 /\ height = 1
    THEN [dims |-> dims, width |-> width, height |-> height, loopOk |-> FALSE]
    ELSE LET nw == Max(1, width \div 2)
             nh == Max(1, height \div 2)
         IN  AllocLoop(i + 1, n, nw, nh, Append(dims, <<nw, nh>>))

\* the allocation block and its four asserts
Allocate(w, h, ub) ==
    LET n == NumLevels(w, h, ub)
        r == IF n >= 0 THEN AllocLoop(0, n, w, h, <<>>)
             ELSE [dims |-> <<>>, width |-> w, height |-> h, loopOk |-> TRUE]
    IN  [numLevels |-> n,
         dims      |-> r.dims,
         nonNegOk  |-> n >= 0,
         loopOk    |-> r.loopOk,
         finalOk   |-> (n >= 0 /\ r.loopOk) => (r.width = 1 /\ r.height = 1),
         sizeOk    |-> (n >= 0 /\ r.loopOk) => (Len(r.dims) = n)]

AllocOk(a) == a.nonNegOk /\ a.loopOk /\ a.finalOk /\ a.sizeOk

-----------------------------------------------------------------------------
(* generate_mipmap: the downsample lambda.  A block is the set of source   *)
(* texels summed into one destination texel and the number divided by.     *)

Block(x0, y0, nx, ny, d) ==
    [cells |-> {<<x0 + i, y0 + j>> : i \in 0 .. (nx - 1), j \in 0 .. (ny - 1)},
     div   |-> d]

\* dst is zero-initialised: a texel never written sums nothing
NoBlock == [cells |-> {}, div |-> 1]

OddW(src) == src.w % 2 = 1
OddH(src) == src.h % 2 = 1
DstW(src) == Max(1, src.w \div 2)
DstH(src) == Max(1, src.h \div 2)
\* dstW, dstH of the lambda: the bounds of the 2x2 loop
LoopW(src) == IF OddW(src) THEN DstW(src) - 1 ELSE DstW(src)
LoopH(src) == IF OddH(src) THEN DstH(src) - 1 ELSE DstH(src)
LastX(src) == DstW(src) - 1
LastY(src) == DstH(src) - 1

\* the writes of the four parts of the lambda, as (destination, block) pairs
MainWrites(src) ==
    {<<<<x, y>>, Block(2 * x, 2 * y, 2, 2, 4)>> :
        x \in 0 .. (LoopW(src) - 1), y \in 0 .. (LoopH(src) - 1)}
ColumnWrites(src) ==
    IF OddW(src)
    THEN {<<<<LastX(src), j>>, Block(LastX(src) * 2, j * 2, 3, 2, 6)>> :
             j \in 0 .. (DstH(src) - 1)}
    ELSE {}
RowWrites(src) ==
    IF OddH(src)
    THEN {<<<<i, LastY(src)>>, Block(i * 2, LastY(src) * 2, 2, 3, 6)>> :
             i \in 0 .. (DstW(src) - 1)}
    ELSE {}
CornerWrites(src) ==
    IF OddW(src) /\ OddH(src)
    THEN {<<<<LastX(src), LastY(src)>>,
            Block(LastX(src) * 2, LastY(src) * 2, 3, 3, 9)>>}
    ELSE {}

\* the block last written to destination texel p: the parts run in the
\* order main, column, row, corner, each overwriting the one before
WrittenBy(writes, p, before) ==
    IF \E wr \in writes : wr[1] = p
    THEN (CHOOSE wr \in writes : wr[1] = p)[2]
    ELSE before

FinalBlock(src, p) ==
    WrittenBy(CornerWrites(src), p,
      WrittenBy(RowWrites(src), p,
        WrittenBy(ColumnWrites(src), p,
          WrittenBy(MainWrites(src), p, NoBlock))))

\* every src.at(x, y) the lambda evaluates
DownsampleReads(src) ==
    UNION {wr[2].cells : wr \in MainWrites(src) \cup ColumnWrites(src)
                                \cup RowWrites(src) \cup CornerWrites(src)}

RECURSIVE SumAt(_, _, _)
SumAt(src, cells, g) ==
    IF cells = {} THEN 0
    ELSE LET c == CHOOSE c \in cells : TRUE
         IN  At(src, c[1], c[2], g) + SumAt(src, cells \ {c}, g)

\* downsample(src, dst), dst being the zero image of the allocation phase
Downsample(src, g) ==
    [w  |-> DstW(src),
     h  |-> DstH(src),
     px |-> [p \in Coords(DstW(src), DstH(src)) |->
                SumAt(src, FinalBlock(src, p).cells, g) \div FinalBlock(src, p).div]]

RECURSIVE FillLevels(_, _, _)
\* the loop over the levels: level i is downsampled from level i-1, level
\* 0 from the base; n levels are still to fill
FillLevels(src, n, g) ==
    IF n = 0 THEN <<>>
    ELSE LET dst == Downsample(src, g)
         IN  <<dst>> \o FillLevels(dst, n - 1, g)

RECURSIVE Sources(_, _, _)
\* the source image of each downsample call, in order
Sources(src, n, g) ==
    IF n = 0 THEN <<>>
    ELSE <<src>> \o Sources(Downsample(src, g), n - 1, g)

\* generate_mipmap(base, &levels): a failing assert aborts the program
generate_mipmap(base, ub, g) ==
    LET a == Allocate(base.w, base.h, ub)
    IN  [alloc   |-> a,
         aborted |-> ~AllocOk(a),
         levels  |-> IF AllocOk(a) THEN FillLevels(base, a.numLevels, g) ELSE <<>>,
         sources |-> IF AllocOk(a) THEN Sources(base, a.numLevels, g) ELSE <<>>]

-----------------------------------------------------------------------------
(* Floats.  A uv component is a whole number of 1/UVDen, or one of two     *)
(* tokens for a finite float of magnitude 2^32 or more, whose conversion   *)
(* to int is undefined.                                                    *)

PosBig == IntMax
NegBig == -IntMax
IsBig(x) == x = PosBig \/ x = NegBig

\* image.w * u in float: 0 * u = 0, and a big u stays big
FMul(w, x) == IF IsBig(x) THEN (IF w = 0 THEN 0 ELSE x) ELSE w * x

\* int(x): truncation toward zero; ub is what the conversion of a float
\* outside the range of int produces
ToInt(x, ub) ==
    IF IsBig(x) THEN ub
    ELSE IF x >= 0 THEN x \div UVDen ELSE -((-x) \div UVDen)

\* x - float(i), in units of 1/UVDen; next to a big x the int is nothing
Frac(x, i) == IF IsBig(x) THEN x ELSE x - UVDen * i

\* a + d in int; ov is what a signed overflow produces
Add32(a, d, ov) ==
    IF d > 0 /\ a > IntMax - d THEN ov
    ELSE IF d < 0 /\ a < IntMin - d THEN ov
    ELSE a + d

\* What an undefined int conversion or a signed overflow may produce.
UBInts == {IntMin, IntMax}
NoUB == [ix |-> 0, iy |-> 0, ox |-> 0, oy |-> 0]
\* the outcomes that can matter to a call with uv = (u, v): a finite
\* component is converted and offset without any undefined step
UBChoices(u, v) ==
    [ix : IF IsBig(u) THEN UBInts ELSE {0}, ox : IF IsBig(u) THEN UBInts ELSE {0},
     iy : IF IsBig(v) THEN UBInts ELSE {0}, oy : IF IsBig(v) THEN UBInts ELSE {0}]

-----------------------------------------------------------------------------
(* The samplers.  A sampler returns the texels it read (taps: the image,   *)
(* the position, the weight in units of 1/(4*LodDen), whether the position *)
(* is inside the image and the value read), the indices at which it        *)
(* subscripted the level vector, and the colour, in units of 1/(4*LodDen). *)

Tap(kind, lvl, img, x, y, wt, g) ==
    [img |-> kind, lvl |-> lvl, x |-> x, y |-> y, wt |-> wt,
     inb |-> InBounds(img, x, y), val |-> At(img, x, y, g)]

RECURSIVE Weighted(_)
Weighted(taps) ==
    IF taps = <<>> THEN 0
    ELSE Head(taps).wt * Head(taps).val + Weighted(Tail(taps))

Sampled(taps, lvls) == [taps |-> taps, lvls |-> lvls, ret |-> Weighted(taps)]

\* Spectrum(): no read at all
DefaultColor == Sampled(<<>>, <<>>)

NearestPos(img, u, v) ==
    LET x  == FMul(img.w, Clamp(u, 0, UVDen))
        y  == FMul(img.h, Clamp(v, 0, UVDen))
        ix == x \div UVDen
        iy == y \div UVDen
    IN  <<Min(ix, img.w - 1), Min(iy, img.h - 1)>>

sample_nearest(img, u, v, g) ==
    LET p == NearestPos(img, u, v)
    IN  Sampled(<<Tap("base", 0, img, p[1], p[2], 4 * LodDen, g)>>, <<>>)

LEFT_UP    == <<<<-1, 1>>, <<0, 1>>, <<0, 0>>, <<-1, 0>>>>
LEFT_DOWN  == <<<<-1, 0>>, <<0, 0>>, <<0, -1>>, <<-1, -1>>>>
RIGHT_UP   == <<<<0, 1>>, <<1, 1>>, <<1, 0>>, <<0, 0>>>>
RIGHT_DOWN == <<<<0, 0>>, <<1, 0>>, <<1, -1>>, <<0, -1>>>>
CENTER     == <<<<-1, 0>>, <<0, 0>>, <<0, -1>>, <<-1, -1>>>>
OFFSETS    == <<LEFT_UP, LEFT_DOWN, RIGHT_UP, RIGHT_DOWN, CENTER>>

\* offset_index: 0,1 left, 2,3 right, +1 if down
OffsetIndex(fw, fh) ==
    (IF fw > UVDen \div 2 THEN 2 ELSE 0) + (IF fh < UVDen \div 2 THEN 1 ELSE 0)

\* the four sample_pos of sample_bilinear
BilinearPos(img, u, v, ub) ==
    LET x  == FMul(img.w, u)
        y  == FMul(img.h, v)
        iw == ToInt(x, ub.ix)
        ih == ToInt(y, ub.iy)
        offs == OFFSETS[OffsetIndex(Frac(x, iw), Frac(y, ih)) + 1]
    IN  [k \in 1..4 |->
            <<Clamp(Max(Add32(iw, offs[k][1], ub.ox), 0), 0, img.w - 1),
              Clamp(Max(Add32(ih, offs[k][2], ub.oy), 0), 0, img.h - 1)>>]

\* the taps of sample_bilinear(img, uv), each scaled by wt/LodDen
BilinearTaps(kind, lvl, img, u, v, ub, g, wt) ==
    LET pos == BilinearPos(img, u, v, ub)
    IN  [k \in 1..4 |-> Tap(kind, lvl, img, pos[k][1], pos[k][2], wt, g)]

sample_bilinear(img, u, v, ub, g) ==
    Sampled(BilinearTaps("base", 0, img, u, v, ub, g, LodDen), <<>>)

\* levels[k]: outside the vector the subscript is undefined and yields
\* some image; the model takes a 1x1 image of the garbage colour
LevelAt(lvs, k, g) ==
    IF 0 <= k /\ k < Len(lvs) THEN lvs[k + 1]
    ELSE [w |-> 1, h |-> 1, px |-> [p \in Coords(1, 1) |-> g]]

sample_trilinear(base, lvs, u, v, lod, ub, g) ==
    IF lod <= 0 THEN sample_bilinear(base, u, v, ub, g)
    ELSE
      LET floor == Max(0, lod \div LodDen)
          ceil  == Min(Len(lvs) - 1, (lod + LodDen) \div LodDen)
          a     == lod - LodDen * floor
          b     == LodDen * ceil - lod
      IN  IF a = 0
          THEN Sampled(BilinearTaps("level", lod \div LodDen,
                                    LevelAt(lvs, lod \div LodDen, g),
                                    u, v, ub, g, LodDen),
                       <<lod \div LodDen>>)
          ELSE Sampled(BilinearTaps("level", floor, LevelAt(lvs, floor, g),
                                    u, v, ub, g, LodDen - a)
                       \o BilinearTaps("level", ceil, LevelAt(lvs, ceil, g),
                                       u, v, ub, g, LodDen - b),
                       <<floor, ceil>>)

\* Image::evaluate
evaluate(img, smp, lvs, u, v, lod, ub, g) ==
    IF img.w = 0 /\ img.h = 0 THEN DefaultColor
    ELSE IF smp = "nearest" THEN sample_nearest(img, u, v, g)
    ELSE IF smp = "bilinear" THEN sample_bilinear(img, u, v, ub, g)
    ELSE sample_trilinear(img, lvs, u, v, lod, ub, g)

-----------------------------------------------------------------------------
(* Textures::Image: the sampler, the image and the cached levels.          *)

Samplers == {"nearest", "bilinear", "trilinear"}

\* no call has been recorded
NoCall == [fn |-> "none"]

update_mipmap_NoClear(img, smp, lvs, ub, g) ==
    IF smp = "trilinear"
    THEN LET r == generate_mipmap(img, ub, g)
         IN  [levels |-> IF r.aborted THEN lvs ELSE r.levels, aborted |-> r.aborted]
    ELSE [levels |-> lvs, aborted |-> FALSE]

\* Image::update_mipmap, on the fields (img, smp, lvs)
update_mipmap(img, smp, lvs, ub, g) ==
    IF smp = "trilinear"
    THEN LET r == generate_mipmap(img, ub, g)
         IN  [levels |-> IF r.aborted THEN lvs ELSE r.levels, aborted |-> r.aborted]
    ELSE [levels |-> <<>>, aborted |-> FALSE]

\* Image::Image(sampler_, image_): the state after construction
Constructed(imgs) ==
    \E img \in imgs, smp \in Samplers, ubl \in UBLevels, g \in Garbage :
        LET r == update_mipmap(img, smp, <<>>, ubl, g)
        IN  /\ image = img
            /\ sampler = smp
            /\ levels = r.levels
            /\ aborted = r.aborted
            /\ op = "construct"
            /\ call = NoCall

\* Image::make_valid
MakeValid ==
    /\ ~aborted
    /\ \E ubl \in UBLevels, g \in Garbage :
         LET r == update_mipmap(image, sampler, levels, ubl, g)
         IN  levels' = r.levels /\ aborted' = r.aborted
    /\ op' = "make_valid"
    /\ call' = NoCall
    /\ UNCHANGED <<image, sampler>>

\* one in-place edit: a repaint at the same size, or one axis resized by one
OneEdit(a, b) ==
    \/ a.w = b.w /\ a.h = b.h
    \/ a.h = b.h /\ (a.w = b.w + 1 \/ b.w = a.w + 1)
    \/ a.w = b.w /\ (a.h = b.h + 1 \/ b.h = a.h + 1)

\* the owner edits the public field image in place
MutateImage ==
    /\ ~aborted
    /\ \E img \in ImagesUpTo(MaxTexDim) :
         img # image /\ OneEdit(image, img) /\ image' = img
    /\ op' = "mutate"
    /\ call' = NoCall
    /\ UNCHANGED <<sampler, levels, aborted>>

\* the owner writes the public field sampler
SetSampler ==
    /\ ~aborted
    /\ \E smp \in Samplers : smp # sampler /\ sampler' = smp
    /\ op' = "set_sampler"
    /\ call' = NoCall
    /\ UNCHANGED <<image, levels, aborted>>

\* a call of Image::evaluate(uv, lod) with uv in us x vs and lod in ls
EvaluateOn(us, vs, ls) ==
    /\ ~aborted
    /\ \E u \in us, v \in vs, lod \in ls, g \in Garbage :
       \E ub \in UBChoices(u, v) :
         LET r == evaluate(image, sampler, levels, u, v, lod, ub, g)
         IN  call' = [fn |-> "evaluate", u |-> u, v |-> v, lod |-> lod,
                      taps |-> r.taps, lvls |-> r.lvls, ret |-> r.ret]
    /\ op' = "evaluate"
    /\ UNCHANGED <<image, sampler, levels, aborted>>

\* uv and lod of the calls made on a Texture that is also mutated
TexUV == {UVDen \div 4}
TexLods == {0, 1, LodDen}

Evaluate == EvaluateOn(TexUV, TexUV, TexLods)

Init == Constructed(ImagesUpTo(MaxTexDim))

Next == MutateImage \/ SetSampler \/ MakeValid \/ Evaluate

Spec == Init /\ [][Next]_vars

-----------------------------------------------------------------------------
(* One evaluate call on a freshly constructed Texture, over a fine grid.   *)

\* nearest and bilinear never read lod, and trilinear reads uv only
\* through sample_bilinear: the fine uv grid (the multiples of 1/(4n) from
\* -2/(4n) to 1 + 2/(4n), and the big floats) goes to the first two
GridUV(n) ==
    IF sampler = "trilinear" THEN {-(UVDen \div 4), UVDen \div 4, UVDen}
    ELSE {(k * UVDen) \div (4 * Max(n, 1)) : k \in (-2) .. (4 * Max(n, 1) + 2)}
            \cup {PosBig, NegBig}

\* from -1/LodDen to one level past the coarsest level of any image
GridLods == IF sampler = "trilinear"
            THEN (-1) .. ((Log2Floor(MaxDim) + 1) * LodDen)
            ELSE {0}

EvaluateOnce ==
    /\ op = "construct"
    /\ EvaluateOn(GridUV(image.w), GridUV(image.h), GridLods)

InitEval == Constructed(ImagesUpTo(MaxDim))

NextEval == EvaluateOnce

SpecEval == InitEval /\ [][NextEval]_vars

-----------------------------------------------------------------------------
(* generate_mipmap on its own: a base image and a vector to fill.          *)
InitGen ==
    /\ image \in ImagesUpTo(MaxGenDim)
    /\ sampler = "trilinear"
    /\ levels = <<>>
    /\ aborted = FALSE
    /\ op = "init"
    /\ call = NoCall

GenerateMipmap ==
    /\ op = "init"
    /\ \E ub \in UBLevels, g \in Garbage :
         LET r == generate_mipmap(image, ub, g)
         IN  /\ levels' = r.levels
             /\ aborted' = r.aborted
             /\ call' = [fn |-> "generate_mipmap", alloc |-> r.alloc,
                         sources |-> r.sources]
    /\ op' = "generate_mipmap"
    /\ UNCHANGED <<image, sampler>>

NextGen == GenerateMipmap

SpecGen == InitGen /\ [][NextGen]_vars

-----------------------------------------------------------------------------
(* operator!= on two Textures.  A Texture holds a Textures::Image or a     *)
(* Textures::Constant.                                                     *)

\* HDR_Image's operator!=: the sizes or some pixel differ
HDRImageNe(a, b) == a.w # b.w \/ a.h # b.h \/ a.px # b.px

ConstantNe(a, b) == a.color # b.color \/ a.scale # b.scale

ImageNe(a, b) == HDRImageNe(a.image, b.image)

TextureNe_VariantsDiffer(a, b) ==
    IF a.kind # b.kind THEN TRUE
    ELSE IF a.kind = "Image" THEN ImageNe(a, b) ELSE ConstantNe(a, b)

\* index() differs: false; else the visit of the common alternative
TextureNe(a, b) ==
    IF a.kind # b.kind THEN FALSE
    ELSE IF a.kind = "Image" THEN ImageNe(a, b) ELSE ConstantNe(a, b)

\* the Image textures: freshly constructed, or with the image or the
\* sampler edited since (the cached levels are those of another image)
ImageTextures ==
    {[kind |-> "Image", sampler |-> smp, image |-> img,
      levels |-> update_mipmap(old, smp, <<>>, IntMin, 0).levels] :
        smp \in Samplers,
        img \in ImagesUpTo(MaxTexDim) \ ImagesUpTo(0),
        old \in {MkImage(1, 1, 0), MkImage(2, 2, 0)}}

ConstantTextures ==
    {[kind |-> "Constant", color |-> c, scale |-> k] :
        c \in {0, ColorUnit}, k \in {1, 2}}

InitNe ==
    /\ image = MkImage(0, 0, 0)
    /\ sampler = "nearest"
    /\ levels = <<>>
    /\ aborted = FALSE
    /\ op = "init"
    /\ \E a \in ImageTextures \cup ConstantTextures,
          b \in ImageTextures \cup ConstantTextures :
         call = [fn |-> "operator!=", a |-> a, b |-> b, ret |-> FALSE]

OperatorNe ==
    /\ op = "init"
    /\ call' = [call EXCEPT !.ret = TextureNe(call.a, call.b)]
    /\ op' = "operator!="
    /\ UNCHANGED <<image, sampler, levels, aborted>>

NextNe == OperatorNe

SpecNe == InitNe /\ [][NextNe]_vars

-----------------------------------------------------------------------------
(* The claims.                                                             *)

Pos(img) == img.w >= 1 /\ img.h >= 1

\* C1: for a base image with w, h >= 1, generate_mipmap makes
\* floor(log2(max(w, h))) levels (the n with 2^n <= max(w, h) < 2^(n+1)),
\* each level max(1, floor(dim/2)) of the one before in both axes, the last
\* 1x1, and none of the four asserts of the allocation phase fails.
C1_MipLevels ==
    (op = "generate_mipmap" /\ Pos(image)) =>
        LET n == Len(levels)
            m == Max(image.w, image.h)
            prev(i) == IF i = 1 THEN image ELSE levels[i - 1]
        IN  /\ ~aborted
            /\ call.alloc.nonNegOk /\ call.alloc.loopOk
            /\ call.alloc.finalOk /\ call.alloc.sizeOk
            /\ Pow(2, n) <= m /\ m < Pow(2, n + 1)
            /\ \A i \in 1..n :
                 /\ levels[i].w = Max(1, prev(i).w \div 2)
                 /\ levels[i].h = Max(1, prev(i).h \div 2)
                 /\ DOMAIN levels[i].px = Coords(levels[i].w, levels[i].h)
            /\ n > 0 => (levels[n].w = 1 /\ levels[n].h = 1)

C1_Witness ==
    /\ op = "generate_mipmap" /\ ~aborted
    /\ image.w = 5 /\ image.h = 3
    /\ Len(levels) = 2 /\ levels[1].w = 2 /\ levels[1].h = 1

\* C2: in every downsample step of generate_mipmap on a base image with
\* w, h >= 1, every source texel read is inside the source image, and every
\* source texel is in the block of exactly one destination texel, a block
\* of 4, 6 or 9 texels of the source that is divided by its size.
C2_BoxFilter ==
    (op = "generate_mipmap" /\ Pos(image) /\ ~aborted) =>
        \A k \in 1..Len(call.sources) :
            LET src == call.sources[k]
                dst == Coords(DstW(src), DstH(src))
            IN  /\ DownsampleReads(src) \subseteq Coords(src.w, src.h)
                /\ \A p \in Coords(src.w, src.h) :
                     /\ Cardinality({d \in dst : p \in FinalBlock(src, d).cells}) = 1
                     /\ \A d \in dst :
                          p \in FinalBlock(src, d).cells =>
                            /\ FinalBlock(src, d).div \in {4, 6, 9}
                            /\ FinalBlock(src, d).div =
                                 Cardinality(FinalBlock(src, d).cells
                                               \cap Coords(src.w, src.h))

\* C3: with a non-empty level vector and lod above its last index,
\* sample_trilinear subscripts levels at the last index only.
C3_ClampsToCoarsest ==
    (op = "evaluate" /\ sampler = "trilinear" /\ Pos(image)
        /\ Len(levels) > 0 /\ call.lod > (Len(levels) - 1) * LodDen) =>
        /\ call.lvls # <<>>
        /\ \A i \in 1..Len(call.lvls) : call.lvls[i] = Len(levels) - 1

\* four times sample_bilinear(img, uv) at a finite uv
BilinearSum(img, u, v) == Weighted(BilinearTaps("ref", 0, img, u, v, NoUB, 0, 1))

\* the result the specification gives for sample_trilinear, in 1/(4*LodDen)
TrilinearReference(base, lvs, u, v, lod) ==
    IF lod <= 0 THEN LodDen * BilinearSum(base, u, v)
    ELSE LET last == Len(lvs) - 1
             lo   == Clamp(lod \div LodDen, 0, last)
             hi   == Clamp((lod + LodDen - 1) \div LodDen, 0, last)
             frac == lod - lo * LodDen
         IN  IF lo = hi THEN LodDen * BilinearSum(lvs[lo + 1], u, v)
             ELSE (LodDen - frac) * BilinearSum(lvs[lo + 1], u, v)
                    + frac * BilinearSum(lvs[hi + 1], u, v)

RECURSIVE SumWt(_)
SumWt(taps) == IF taps = <<>> THEN 0 ELSE Head(taps).wt + SumWt(Tail(taps))

\* C4: with a non-empty level vector, sample_trilinear returns bilinear(base)
\* for lod <= 0, bilinear(levels[lo]) when lo = hi, and the blend
\* (1-frac)*bilinear(levels[lo]) + frac*bilinear(levels[hi]) otherwise; the
\* weights of the texels it reads are non-negative and sum to 1.
C4_TrilinearReference ==
    (op = "evaluate" /\ sampler = "trilinear" /\ Pos(image) /\ Len(levels) > 0
        /\ ~IsBig(call.u) /\ ~IsBig(call.v)) =>
        /\ call.ret = TrilinearReference(image, levels, call.u, call.v, call.lod)
        /\ \A i \in 1..Len(call.taps) : call.taps[i].wt >= 0
        /\ SumWt(call.taps) = 4 * LodDen

\* C5: sample_bilinear at the exact centre of texel (i, j) of an image with
\* w, h >= 1 returns the colour of texel (i, j).
C5_TexelCentre ==
    (op = "evaluate" /\ sampler = "bilinear" /\ Pos(image)) =>
        \A p \in Coords(image.w, image.h) :
            (/\ ~IsBig(call.u) /\ ~IsBig(call.v)
             /\ 2 * image.w * call.u = (2 * p[1] + 1) * UVDen
             /\ 2 * image.h * call.v = (2 * p[2] + 1) * UVDen) =>
                call.ret = 4 * LodDen * image.px[p]

\* C6: on an image with w = 0 or h = 0, evaluate returns the zero colour
\* in every mode, without reading a pixel.
C6_ZeroArea ==
    (op = "evaluate" /\ (image.w = 0 \/ image.h = 0)) =>
        call.ret = 0 /\ call.taps = <<>>

\* C7: for a 1x1 base image of colour c the level vector is empty and
\* evaluate returns c in every mode, for every uv and lod, without
\* subscripting the empty vector.
C7_OneByOne ==
    (op = "evaluate" /\ image.w = 1 /\ image.h = 1) =>
        /\ levels = <<>>
        /\ call.lvls = <<>>
        /\ call.ret = 4 * LodDen * image.px[<<0, 0>>]

\* the cached levels are what update_mipmap leaves for the current fields
CacheValid ==
    IF sampler = "trilinear"
    THEN \E ubl \in UBLevels, g \in Garbage :
            /\ ~generate_mipmap(image, ubl, g).aborted
            /\ levels = generate_mipmap(image, ubl, g).levels
    ELSE levels = <<>>

\* C8: right after construction and right after every make_valid the
\* cached levels are the generator's output for the current image when the
\* sampler is trilinear, and empty otherwise; the cached levels change in
\* no other operation (evaluate and the owner's edits leave them alone).
C8_CacheDiscipline ==
    /\ []((op \in {"construct", "make_valid"} /\ ~aborted) => CacheValid)
    /\ [][levels' # levels => op' = "make_valid"]_vars

C8_Witness ==
    /\ op = "make_valid" /\ ~aborted
    /\ sampler = "trilinear" /\ image = MkImage(2, 2, 1)
    /\ Len(levels) = 1 /\ levels[1].w = 1 /\ levels[1].h = 1

\* the texel of [0, n) that holds x/UVDen * n once x is clamped to [0, 1]
NearestIndex(n, x) ==
    LET c == IF x < 0 THEN 0 ELSE IF x > UVDen THEN UVDen ELSE x
    IN  IF c = UVDen THEN n - 1
        ELSE CHOOSE i \in 0 .. (n - 1) : i * UVDen <= n * c /\ n * c < (i + 1) * UVDen

\* C9: on an image with w, h >= 1 and for every uv, inside [0,1]^2 or not,
\* every pixel read by sample_nearest and sample_bilinear is at x in
\* [0, w-1], y in [0, h-1]; sample_nearest reads the one texel that holds
\* the clamped uv and returns it unchanged; sample_bilinear returns a
\* combination of at most 4 texels with weights in [0, 1] that sum to 1.
C9_SamplerAccess ==
    (op = "evaluate" /\ sampler \in {"nearest", "bilinear"} /\ Pos(image)) =>
        /\ \A i \in 1..Len(call.taps) :
             /\ call.taps[i].x \in 0 .. (image.w - 1)
             /\ call.taps[i].y \in 0 .. (image.h - 1)
             /\ call.taps[i].inb
             /\ call.taps[i].wt \in 0 .. (4 * LodDen)
        /\ Len(call.taps) <= 4
        /\ SumWt(call.taps) = 4 * LodDen
        /\ call.ret = Weighted([i \in 1..Len(call.taps) |->
                          [wt  |-> call.taps[i].wt,
                           val |-> image.px[<<call.taps[i].x, call.taps[i].y>>]]])
        /\ sampler = "nearest" =>
             /\ Len(call.taps) = 1
             /\ call.taps[1].x = NearestIndex(image.w, call.u)
             /\ call.taps[1].y = NearestIndex(image.h, call.v)
             /\ call.ret = 4 * LodDen * image.px[<<call.taps[1].x, call.taps[1].y>>]

C9_Witness ==
    /\ op = "evaluate" /\ sampler = "bilinear"
    /\ image = MkImage(3, 2, 1)
    /\ call.u = PosBig /\ call.v < 0 /\ ~IsBig(call.v)
    /\ Len(call.taps) = 4 /\ call.taps[1].x = 2

\* the contents operator!= compares
Content(t) == IF t.kind = "Image" THEN t.image ELSE <<t.color, t.scale>>

\* C10: operator!= on two Textures is true exactly when both hold the same
\* variant and their contents differ (the base images, or colour and scale;
\* sampler and cached levels are ignored); for different variants it is
\* false.
C10_TextureNe ==
    op = "operator!=" =>
        /\ call.ret = (call.a.kind = call.b.kind /\ Content(call.a) # Content(call.b))
        /\ call.a.kind # call.b.kind => call.ret = FALSE

C10_Witness ==
    /\ op = "operator!="
    /\ call.a.kind = "Image" /\ call.b.kind = "Image"
    /\ call.a.image = call.b.image
    /\ call.a.sampler # call.b.sampler /\ call.a.levels # call.b.levels
    /\ call.ret = FALSE

====
